---- MODULE Spec2Model ----
(***************************************************************************)
(* Live label detection session (src/main.py): the main() driver, the       *)
(* start-up steps initialize_rekognition() and open_camera(), the frame     *)
(* loop process_frames() with the overlay renderer draw_labels(), and the   *)
(* finally block of main().                                                 *)
(*                                                                          *)
(* The program is single threaded; pc is the position of that thread.  The  *)
(* camera, the JPEG encoder, the labelling service, the display and the     *)
(* keyboard are external: every call to them draws its outcome from the     *)
(* outcomes the call can produce.                                           *)
(***************************************************************************)
EXTENDS Integers, Sequences, FiniteSets, TLC

(* ------------------------------ bounds --------------------------------- *)

\* Number of camera reads issued in one run.
MaxReads == 3

\* Longest label list a response carries in the model.
MaxResp == 2

\* Longest label list handed to draw_labels in the renderer's specification.
MaxDraw == 4

(* ------------------------- program constants --------------------------- *)

None == "None"

\* Values of the locals of process_frames before their first assignment, and
\* of a window that shows nothing.
NoFrame == [id |-> 0, boxes |-> <<>>]
NoBuffer == [jpegOf |-> 0]
NoRequest == [Bytes |-> 0]

\* draw_labels: first baseline, spacing and margin.
Y0Start == 30
Dy == 20
Margin == 5

\* detect_labels request parameters.
MaxLabels == 10
MinConfidence == 75

\* ord('q')
OrdQ == 113

\* The mask applied to the key code.
KeyMask == 256

(* --------------------------- input domains ----------------------------- *)

\* Values os.getenv can give for a credential variable.
EnvValues == {None, "", "set"}

\* Label records a response can carry: three well-formed ones (one of them
\* with a confidence, 90.35, whose float lies below the decimal tie), one
\* without 'Name', one without 'Confidence'.  Confidence is in hundredths
\* of a percent.
LabelPool ==
  { [Name |-> "Cat", Confidence |-> 9120],
    [Name |-> "Table", Confidence |-> 7850],
    [Name |-> "Cat", Confidence |-> 9035],
    [Confidence |-> 9025],
    [Name |-> "Dog"] }

RECURSIVE SeqsUpTo(_, _)
SeqsUpTo(S, n) ==
  IF n = 0 THEN {<<>>}
  ELSE LET shorter == SeqsUpTo(S, n - 1)
       IN  shorter \cup {Append(s, e) : s \in {t \in shorter : Len(t) = n - 1}, e \in S}

\* Responses of detect_labels: a dict with or without the 'Labels' key.
Responses ==
  {[ResponseMetadata |-> "ok"]}
    \cup {[ResponseMetadata |-> "ok", Labels |-> ls] : ls \in SeqsUpTo(LabelPool, MaxResp)}

\* Key codes cv2.waitKey can return: no key, 'q', 'a', and a code whose low
\* byte is that of 'q'.
KeyCodes == {-1, 113, 97, 369}

\* Exceptions an external call in the loop body can raise.
LoopExceptions == {"cv2.error", "RuntimeError"}

(* ------------------------------- state --------------------------------- *)

VARIABLES
  pc,           \* position of the thread
  region,       \* REGION_NAME
  rek_client,   \* main's rek_client
  cap,          \* main's cap
  camera,       \* the device: "closed", "unavailable", "open", "released"
  ret,          \* process_frames' ret (TRUE before the first read)
  frame,        \* process_frames' frame: [id, boxes]
  img_buffer,   \* process_frames' img_buffer
  request,      \* last request sent to detect_labels
  labels,       \* process_frames' labels
  key,          \* process_frames' key (-1 before the first poll)
  window,       \* what the 'Live Labels' window shows: None or a frame
  keyQueue,     \* key event waiting in the window system (-1: none)
  pending,      \* exception propagating out of main's try statement
  exitStatus,   \* process exit status (-1 while running)
  \* observation of the run
  exitPath,     \* why the try block of main was left
  reads,        \* camera reads issued
  encodes,      \* encode calls for the current frame
  lastEncode,   \* outcome of the current frame's encode call
  inferCalls,   \* detect_labels calls for the current frame
  lastInfer,    \* outcome of the current frame's detect_labels call
  overlayDone,  \* draw_labels returned normally for the current frame
  shown,        \* imshow calls for the current frame
  polls,        \* waitKey calls in the current iteration
  cleanupCount, \* entries into the finally block
  releaseCount, \* cap.release() calls
  destroyCount  \* cv2.destroyAllWindows() calls

vars == <<pc, region, rek_client, cap, camera, ret, frame, img_buffer, request,
          labels, key, window, keyQueue, pending, exitStatus, exitPath,
          reads, encodes, lastEncode, inferCalls, lastInfer, overlayDone, shown, polls,
          cleanupCount, releaseCount, destroyCount>>

progVars == <<region, rek_client, cap, camera, ret, frame, img_buffer, request,
              labels, key, window, pending, exitStatus>>

obsVars == <<exitPath, reads, encodes, lastEncode, inferCalls, lastInfer, overlayDone,
             shown, polls, cleanupCount, releaseCount, destroyCount>>

(* ------------------------------ helpers -------------------------------- *)

\* Python truthiness of an os.getenv result.
Truthy(v) == v # None /\ v # ""

\* dict.get(key, default)
DictGet(d, k, default) == IF k \in DOMAIN d THEN d[k] ELSE default

\* Exceptions that are instances of Exception (SystemExit is not).
IsException(e) == e \in {"RuntimeError", "KeyError", "cv2.error", "ClientError"}

\* main's except clauses: RuntimeError, then Exception.
MainCatches(e) == e = "RuntimeError" \/ IsException(e)

\* What leaves main's try statement when e is raised inside it.
Propagates(e) == IF MainCatches(e) THEN None ELSE e

\* Exit status of the interpreter when main() ends with exception p pending.
ExitStatusOf(p) == IF p = "SystemExit" THEN 1 ELSE 0

(* --------------------------- draw_labels ------------------------------- *)

\* cv2.getTextSize with FONT_HERSHEY_SIMPLEX, scale 0.6, thickness 1: the
\* height and the baseline depend on the font only.  The width plays no
\* part in the vertical layout and is left out.
GetTextSize(text) == [h |-> 14, baseline |-> 6]

\* The confidence is a Python float: the double nearest to c / 100, c being
\* the confidence in hundredths.  BinExp(c) is the binary exponent of that
\* value, floor(log2(c / 100)), for c > 0.
RECURSIVE BinExp(_)
BinExp(c) ==
  IF c < 100 THEN BinExp(2 * c) - 1
  ELSE IF c < 200 THEN 0
  ELSE BinExp(c \div 2) + 1

\* 2^k modulo m, by repeated squaring (m * m stays far below 2^31)
RECURSIVE Pow2Mod(_, _)
Pow2Mod(k, m) ==
  IF k = 0 THEN 1 % m
  ELSE LET h == Pow2Mod(k \div 2, m)
       IN  IF k % 2 = 0 THEN (h * h) % m ELSE (2 * h * h) % m

\* Where the stored double lies with respect to c / 100.  The double keeps
\* 53 significant bits: it is q / 2^k with k = 52 - BinExp(c) and q the
\* integer nearest to c * 2^k / 100 (a tie to the even q), so the remainder
\* of c * 2^k by 100 tells which way the value was rounded.
StoredSide(c) ==
  IF c = 0 THEN "exact"
  ELSE LET k == 52 - BinExp(c)
           m == ((c % 200) * Pow2Mod(k, 200)) % 200
           rem == m % 100
       IN  IF rem = 0 THEN "exact"
           ELSE IF rem < 50 THEN "below"
           ELSE IF rem > 50 THEN "above"
           ELSE IF m = 50 THEN "below"
           ELSE "above"

\* f"{c:.1f}", in tenths: the stored double rounded to the nearest tenth.
\* When the hundredths digit is 5 the stored value decides: below the
\* decimal tie it rounds down, above it up, and only a value stored exactly
\* (x.25, x.75) is a tie, rounded to the even tenth.
Format1f(c) ==
  LET t == c \div 10
      r == c % 10
      side == StoredSide(c)
  IN  IF r > 5 THEN t + 1
      ELSE IF r < 5 THEN t
      ELSE IF side = "above" THEN t + 1
      ELSE IF side = "below" THEN t
      ELSE IF t % 2 = 1 THEN t + 1
      ELSE t

\* f"{label['Name']} ({label['Confidence']:.1f}%)"
LabelText(label) == [name |-> label.Name, tenths |-> Format1f(label.Confidence)]

\* The subscripts of line 92 raise KeyError when a key is missing.
WellFormed(label) == "Name" \in DOMAIN label /\ "Confidence" \in DOMAIN label

\* The rectangle and the text origin drawn for one label at baseline y0.
BoxAt(label, y0) ==
  LET text == LabelText(label)
      sz == GetTextSize(text)
  IN  [text |-> text,
       left |-> Margin,
       top |-> y0 - sz.h - Margin,
       bottom |-> y0 + sz.baseline + Margin,
       textX |-> Margin + Margin,
       textY |-> y0 + (sz.baseline \div 2)]

\* The update of y0 left out: every label is drawn at the first baseline.
NextY0_stuck(label, y0) == y0

\* y0 += h + baseline + dy
NextY0(label, y0) ==
  LET sz == GetTextSize(LabelText(label))
  IN  y0 + sz.h + sz.baseline + Dy

\* The for loop of draw_labels from index i on: the boxes drawn on the
\* frame and the exception raised, if any.
RECURSIVE DrawFrom(_, _, _, _)
DrawFrom(boxes, ls, i, y0) ==
  IF i > Len(ls) THEN [boxes |-> boxes, raised |-> None]
  ELSE IF ~WellFormed(ls[i]) THEN [boxes |-> boxes, raised |-> "KeyError"]
  ELSE DrawFrom(Append(boxes, BoxAt(ls[i], y0)), ls, i + 1, NextY0(ls[i], y0))

draw_labels(f, ls) == DrawFrom(f.boxes, ls, 1, Y0Start)

(* ------------------------- session state ------------------------------- *)

InitPcs == {"import", "initialize_rekognition", "open_camera"}
LoopPcs == {"read", "encode", "detect", "draw", "show", "waitkey"}
CleanupPcs == {"finally", "release", "destroy"}
EndPcs == {"done", "exited_at_import"}

SessionState ==
  CASE pc \in InitPcs -> "INIT"
    [] pc \in LoopPcs -> "RUNNING"
    [] pc \in CleanupPcs -> "DRAINING"
    [] pc \in EndPcs -> "TERMINATED"

(* ------------------------------- Init ---------------------------------- *)

Init ==
  /\ pc = "import"
  /\ region \in EnvValues
  /\ rek_client = None
  /\ cap = None
  /\ camera = "closed"
  /\ ret = TRUE
  /\ frame = NoFrame
  /\ img_buffer = NoBuffer
  /\ request = NoRequest
  /\ labels = <<>>
  /\ key = -1
  /\ window = NoFrame
  /\ keyQueue = -1
  /\ pending = None
  /\ exitStatus = -1
  /\ exitPath = None
  /\ reads = 0
  /\ encodes = 0
  /\ lastEncode = None
  /\ inferCalls = 0
  /\ lastInfer = None
  /\ overlayDone = FALSE
  /\ shown = 0
  /\ polls = 0
  /\ cleanupCount = 0
  /\ releaseCount = 0
  /\ destroyCount = 0

(* ------------------------ module level code ---------------------------- *)

\* REGION_NAME = os.getenv('AWS_REGION'); sys.exit(1) when it is missing.
\* This runs before main() is entered.
ModuleImport ==
  /\ pc = "import"
  /\ IF Truthy(region)
       THEN pc' = "initialize_rekognition" /\ exitStatus' = exitStatus
       ELSE pc' = "exited_at_import" /\ exitStatus' = 1
  /\ UNCHANGED <<region, rek_client, cap, camera, ret, frame, img_buffer,
                 request, labels, key, window, keyQueue, pending>>
  /\ UNCHANGED obsVars

(* ------------------------ initialize_rekognition ----------------------- *)

\* The result of initialize_rekognition: the client, or the SystemExit
\* raised by sys.exit(1) when a credential is missing or boto3.client
\* raises.
InitializeResult(keyId, secret, clientRaises) ==
  IF ~Truthy(keyId) \/ ~Truthy(secret) THEN "SystemExit"
  ELSE IF clientRaises THEN "SystemExit"
  ELSE "rek_client"

\* main: rek_client = initialize_rekognition()
InitializeRekognition ==
  /\ pc = "initialize_rekognition"
  /\ \E keyId \in EnvValues, secret \in EnvValues, clientRaises \in BOOLEAN :
       LET r == InitializeResult(keyId, secret, clientRaises)
       IN  IF r = "SystemExit"
             THEN /\ pc' = "finally"
                  /\ pending' = Propagates(r)
                  /\ exitPath' = "client_init_failed"
                  /\ rek_client' = rek_client
             ELSE /\ pc' = "open_camera"
                  /\ rek_client' = r
                  /\ UNCHANGED <<pending, exitPath>>
  /\ UNCHANGED <<region, cap, camera, ret, frame, img_buffer, request, labels,
                 key, window, keyQueue, exitStatus>>
  /\ UNCHANGED <<reads, encodes, lastEncode, inferCalls, lastInfer, overlayDone,
                 shown, polls, cleanupCount, releaseCount, destroyCount>>

(* ----------------------------- open_camera ----------------------------- *)

\* open_camera without its isOpened check.
OpenCameraResult_unchecked(isOpened) == "cap"

\* The result of open_camera: the capture object, or RuntimeError when
\* cap.isOpened() is false.
OpenCameraResult(isOpened) == IF isOpened THEN "cap" ELSE "RuntimeError"

\* main: cap = open_camera(index=0)
OpenCamera ==
  /\ pc = "open_camera"
  /\ \E isOpened \in BOOLEAN :
       /\ LET r == OpenCameraResult(isOpened)
          IN  IF r = "RuntimeError"
             THEN /\ pc' = "finally"
                  /\ pending' = Propagates(r)
                  /\ exitPath' = "camera_open_failed"
                  /\ cap' = cap
             ELSE /\ pc' = "read"
                  /\ cap' = r
                  /\ UNCHANGED <<pending, exitPath>>
       /\ camera' = IF isOpened THEN "open" ELSE "unavailable"
  /\ UNCHANGED <<region, rek_client, ret, frame, img_buffer, request, labels,
                 key, window, keyQueue, exitStatus>>
  /\ UNCHANGED <<reads, encodes, lastEncode, inferCalls, lastInfer, overlayDone,
                 shown, polls, cleanupCount, releaseCount, destroyCount>>

(* ---------------------------- process_frames --------------------------- *)

\* An exception leaves process_frames and reaches main's except clauses.
LoopRaises(e) ==
  /\ pc' = "finally"
  /\ pending' = Propagates(e)
  /\ exitPath' = "exception"

\* The read's ret flag ignored: the loop body runs on.
AfterRead_ignores(r) == "encode"

\* Where the loop goes after cap.read(): on to the encoder, or out of the
\* loop when ret is false.
AfterRead(r) == IF r THEN "encode" ELSE "finally"

\* ret, frame = cap.read(); if not ret: break -- as the read that brings the
\* count of reads to n.
ReadStep(n) ==
  /\ pc = "read"
  /\ reads' = n
  /\ encodes' = 0
  /\ lastEncode' = None
  /\ inferCalls' = 0
  /\ lastInfer' = None
  /\ overlayDone' = FALSE
  /\ shown' = 0
  /\ polls' = 0
  /\ \/ \E r \in BOOLEAN :
          /\ ret' = r
          /\ pc' = AfterRead(r)
          /\ frame' = IF r THEN [id |-> n, boxes |-> <<>>] ELSE NoFrame
          /\ exitPath' = IF pc' = "finally" THEN "end_of_stream" ELSE exitPath
          /\ pending' = pending
     \/ \E e \in LoopExceptions :
          /\ LoopRaises(e)
          /\ UNCHANGED <<ret, frame>>
  /\ UNCHANGED <<region, rek_client, cap, camera, img_buffer, request, labels,
                 key, window, keyQueue, exitStatus>>
  /\ UNCHANGED <<cleanupCount, releaseCount, destroyCount>>

\* A camera read, counted; at most MaxReads of them.
Read ==
  /\ reads < MaxReads
  /\ ReadStep(reads + 1)

\* A camera read past MaxReads: the same step, with the count of reads (and
\* with it the frame number) left at MaxReads.
ReadAgain ==
  /\ reads = MaxReads
  /\ ReadStep(reads)

\* `break` in place of `continue`: a failed encode ends the loop.
AfterEncode_breaks(success) == IF success THEN "detect" ELSE "finally"

\* The encoder's success flag ignored: the inference call is made anyway.
AfterEncode_proceeds(success) == "detect"

\* Where the loop goes after cv2.imencode: on to the inference call, or
\* back to the top of the loop (continue) when success is false.
AfterEncode(success) == IF success THEN "detect" ELSE "read"

\* success, img_buffer = cv2.imencode('.jpg', frame); if not success: continue
Encode ==
  /\ pc = "encode"
  /\ encodes' = encodes + 1
  /\ \/ \E success \in BOOLEAN :
          /\ pc' = AfterEncode(success)
          /\ img_buffer' = IF success THEN [jpegOf |-> frame.id] ELSE NoBuffer
          /\ lastEncode' = IF success THEN "ok" ELSE "failed"
          /\ UNCHANGED <<pending, exitPath>>
     \/ \E e \in LoopExceptions :
          /\ LoopRaises(e)
          /\ lastEncode' = "raised"
          /\ img_buffer' = img_buffer
  /\ UNCHANGED <<region, rek_client, cap, camera, ret, frame, request, labels,
                 key, window, keyQueue, exitStatus>>
  /\ UNCHANGED <<reads, inferCalls, lastInfer, overlayDone, shown, polls,
                 cleanupCount, releaseCount, destroyCount>>

\* The except clause falling through to the overlay: the frame is drawn
\* with whatever labels holds from an earlier iteration.
AfterInferenceError_draws(e) == "draw"

\* The except clause falling through to the display: the frame is shown
\* without an overlay pass.
AfterInferenceError_shows(e) == "show"

\* The inference call without its try statement: the error leaves the loop.
AfterInferenceError_uncaught(e) == "finally"

\* The except clause around the inference call catches every Exception and
\* continues with the next iteration.
AfterInferenceError(e) == IF IsException(e) THEN "read" ELSE "finally"

\* The try statement around rek_client.detect_labels.
DetectLabels ==
  /\ pc = "detect"
  /\ inferCalls' = inferCalls + 1
  /\ request' = [Bytes |-> img_buffer.jpegOf, MaxLabels |-> MaxLabels,
                 MinConfidence |-> MinConfidence]
  /\ \/ \E response \in Responses :
          /\ labels' = DictGet(response, "Labels", <<>>)
          /\ lastInfer' = "ok"
          /\ pc' = "draw"
          /\ UNCHANGED <<pending, exitPath>>
     \/ /\ lastInfer' = "failed"
        /\ pc' = AfterInferenceError("ClientError")
        /\ IF pc' = "finally"
             THEN pending' = Propagates("ClientError") /\ exitPath' = "exception"
             ELSE UNCHANGED <<pending, exitPath>>
        /\ labels' = labels
  /\ UNCHANGED <<region, rek_client, cap, camera, ret, frame, img_buffer, key,
                 window, keyQueue, exitStatus>>
  /\ UNCHANGED <<reads, encodes, lastEncode, overlayDone, shown, polls, cleanupCount,
                 releaseCount, destroyCount>>

\* The display step left out: the key is polled right after the overlay.
AfterDraw_skipsDisplay(raised) == IF raised = None THEN "waitkey" ELSE "finally"

\* An error of draw_labels swallowed: the frame is displayed all the same.
AfterDraw_swallows(raised) == "show"

\* Where the loop goes after draw_labels: on to the display, or out of
\* process_frames when draw_labels raised (no except clause covers line 145).
AfterDraw(raised) == IF raised = None THEN "show" ELSE "finally"

\* draw_labels(frame, labels): the frame is drawn on in place; a KeyError
\* raised by a label record is not caught in process_frames.
DrawLabels ==
  /\ pc = "draw"
  /\ LET d == draw_labels(frame, labels)
     IN  /\ frame' = [frame EXCEPT !.boxes = d.boxes]
         /\ overlayDone' = (d.raised = None)
         /\ pc' = AfterDraw(d.raised)
         /\ IF pc' = "finally"
              THEN pending' = Propagates(d.raised) /\ exitPath' = "exception"
              ELSE UNCHANGED <<pending, exitPath>>
  /\ UNCHANGED <<region, rek_client, cap, camera, ret, img_buffer, request,
                 labels, key, window, keyQueue, exitStatus>>
  /\ UNCHANGED <<reads, encodes, lastEncode, inferCalls, lastInfer, shown, polls,
                 cleanupCount, releaseCount, destroyCount>>

\* cv2.imshow('Live Labels', frame)
ImShow ==
  /\ pc = "show"
  /\ shown' = shown + 1
  /\ \/ /\ window' = frame
        /\ pc' = "waitkey"
        /\ UNCHANGED <<pending, exitPath>>
     \/ \E e \in LoopExceptions :
          /\ LoopRaises(e)
          /\ window' = window
  /\ UNCHANGED <<region, rek_client, cap, camera, ret, frame, img_buffer,
                 request, labels, key, keyQueue, exitStatus>>
  /\ UNCHANGED <<reads, encodes, lastEncode, inferCalls, lastInfer, overlayDone,
                 polls,
                 cleanupCount, releaseCount, destroyCount>>

\* cv2.waitKey(1) & 0xFF
MaskKey(code) == code % KeyMask

\* The key poll without its break.
AfterPoll_ignores(k) == "read"

\* if key == ord('q'): break -- out of the loop on the exit key, else back
\* to the top.
AfterPoll(k) == IF k = OrdQ THEN "finally" ELSE "read"

\* key = cv2.waitKey(1) & 0xFF; if key == ord('q'): break
WaitKey ==
  /\ pc = "waitkey"
  /\ polls' = polls + 1
  /\ keyQueue' = -1
  /\ key' = MaskKey(keyQueue)
  /\ pc' = AfterPoll(key')
  /\ exitPath' = IF pc' = "finally" THEN "exit_key" ELSE exitPath
  /\ UNCHANGED <<region, rek_client, cap, camera, ret, frame, img_buffer,
                 request, labels, window, pending, exitStatus>>
  /\ UNCHANGED <<reads, encodes, lastEncode, inferCalls, lastInfer, overlayDone, shown,
                 cleanupCount, releaseCount, destroyCount>>

\* The user presses a key while the 'Live Labels' window exists; the event
\* waits until the next cv2.waitKey.
PressKey ==
  /\ pc \in LoopPcs
  /\ window # NoFrame
  /\ keyQueue = -1
  /\ \E code \in KeyCodes \ {-1} : keyQueue' = code
  /\ UNCHANGED <<pc, region, rek_client, cap, camera, ret, frame, img_buffer,
                 request, labels, key, window, pending, exitStatus>>
  /\ UNCHANGED obsVars

(* ------------------------- main: finally block ------------------------- *)

\* The finally block without the release: the windows are destroyed with
\* the camera still open.
ShouldRelease_never(c) == FALSE

\* The finally block without its guard: release whatever cap holds.
ShouldRelease_always(c) == TRUE

\* if cap:
ShouldRelease(c) == c # None

\* finally: logging.info("Starting cleanup..."); if cap:
CleanupStart ==
  /\ pc = "finally"
  /\ cleanupCount' = cleanupCount + 1
  /\ pc' = IF ShouldRelease(cap) THEN "release" ELSE "destroy"
  /\ UNCHANGED progVars
  /\ UNCHANGED <<keyQueue, exitPath, reads, encodes, lastEncode, inferCalls, lastInfer,
                 overlayDone, shown, polls, releaseCount, destroyCount>>

\* cap.release()
CleanupRelease ==
  /\ pc = "release"
  /\ camera' = IF camera = "open" THEN "released" ELSE camera
  /\ releaseCount' = releaseCount + 1
  /\ pc' = "destroy"
  /\ UNCHANGED <<region, rek_client, cap, ret, frame, img_buffer, request,
                 labels, key, window, keyQueue, pending, exitStatus>>
  /\ UNCHANGED <<exitPath, reads, encodes, lastEncode, inferCalls, lastInfer, overlayDone,
                 shown, polls, cleanupCount, destroyCount>>

\* cv2.destroyAllWindows(); main() ends and the interpreter exits.
CleanupDestroy ==
  /\ pc = "destroy"
  /\ window' = NoFrame
  /\ destroyCount' = destroyCount + 1
  /\ exitStatus' = ExitStatusOf(pending)
  /\ pc' = "done"
  /\ UNCHANGED <<region, rek_client, cap, camera, ret, frame, img_buffer,
                 request, labels, key, keyQueue, pending>>
  /\ UNCHANGED <<exitPath, reads, encodes, lastEncode, inferCalls, lastInfer, overlayDone,
                 shown, polls, cleanupCount, releaseCount>>

(* --------------------------- specification ----------------------------- *)

Next ==
  \/ ModuleImport
  \/ InitializeRekognition
  \/ OpenCamera
  \/ Read
  \/ Encode
  \/ DetectLabels
  \/ DrawLabels
  \/ ImShow
  \/ WaitKey
  \/ PressKey
  \/ CleanupStart
  \/ CleanupRelease
  \/ CleanupDestroy

Spec == Init /\ [][Next]_vars

(* ------------------- the session without a last read ------------------ *)

\* The steps of the program's thread; PressKey is the user's.
ThreadStep ==
  \/ ModuleImport
  \/ InitializeRekognition
  \/ OpenCamera
  \/ Read
  \/ ReadAgain
  \/ Encode
  \/ DetectLabels
  \/ DrawLabels
  \/ ImShow
  \/ WaitKey
  \/ CleanupStart
  \/ CleanupRelease
  \/ CleanupDestroy

LiveNext == Next \/ ReadAgain

\* Every call returns, so the thread always takes its next step; which
\* outcome a call has is up to the environment.
LiveSpec == Init /\ [][LiveNext]_vars /\ WF_vars(ThreadStep)

(* ---------------------- the renderer on its own ------------------------ *)

\* The thread at the call of draw_labels in the first iteration, with any
\* label list of up to MaxDraw records in labels.
DrawInit ==
  /\ pc = "draw"
  /\ region = "set"
  /\ rek_client = "rek_client"
  /\ cap = "cap"
  /\ camera = "open"
  /\ ret = TRUE
  /\ frame = [id |-> 1, boxes |-> <<>>]
  /\ img_buffer = [jpegOf |-> 1]
  /\ request = [Bytes |-> 1, MaxLabels |-> MaxLabels,
                MinConfidence |-> MinConfidence]
  /\ labels \in SeqsUpTo(LabelPool, MaxDraw)
  /\ key = -1
  /\ window = NoFrame
  /\ keyQueue = -1
  /\ pending = None
  /\ exitStatus = -1
  /\ exitPath = None
  /\ reads = 1
  /\ encodes = 1
  /\ lastEncode = "ok"
  /\ inferCalls = 1
  /\ lastInfer = "ok"
  /\ overlayDone = FALSE
  /\ shown = 0
  /\ polls = 0
  /\ cleanupCount = 0
  /\ releaseCount = 0
  /\ destroyCount = 0

DrawNext == DrawLabels

DrawSpec == DrawInit /\ [][DrawNext]_vars

(* ------------------------------ properties ----------------------------- *)

AfterLoopPcs == CleanupPcs \cup {"done"}

ExitPaths == {"client_init_failed", "camera_open_failed", "end_of_stream",
              "exit_key", "exception"}

CameraWasOpened == camera \in {"open", "released"}

Malformed(ls) == \E i \in 1..Len(ls) : ~WellFormed(ls[i])

\* C1: whichever way main() ends (inference client not acquired, camera not
\* opened, camera read failure, exit key, exception out of the loop body),
\* the finally block is entered exactly once, the camera is released exactly
\* once if it was opened and never otherwise, and the windows are destroyed
\* exactly once.
C1_CleanupExactlyOnce ==
  /\ cleanupCount <= 1
  /\ releaseCount <= 1
  /\ destroyCount <= 1
  /\ pc \in AfterLoopPcs => exitPath \in ExitPaths
  /\ pc = "done" =>
       /\ cleanupCount = 1
       /\ destroyCount = 1
       /\ releaseCount = (IF CameraWasOpened THEN 1 ELSE 0)

C1_Witness ==
  /\ pc = "done"
  /\ exitPath = "exception"
  /\ cleanupCount = 1
  /\ releaseCount = 1
  /\ destroyCount = 1

\* C2: after a detect_labels call that raised, the session is still RUNNING
\* and the thread is at the camera read of the next iteration; nothing of
\* the termination path has happened.
C2_InferenceFailureContinues ==
  lastInfer = "failed" =>
    /\ pc = "read"
    /\ SessionState = "RUNNING"
    /\ exitPath = None
    /\ cleanupCount = 0

C2_Witness ==
  /\ lastInfer = "failed"
  /\ inferCalls = 1
  /\ pc = "read"

\* C3: a response whose label list holds a record without its name or its
\* confidence does not end the session: the thread stays in the loop.
C3_MalformedResponseRecoverable ==
  (lastInfer = "ok" /\ Malformed(labels)) => SessionState = "RUNNING"

\* C4: in an iteration whose encode call reported failure no inference call
\* is made, and the thread is at the camera read of the next iteration.
C4_EncodeFailureSkipsInference ==
  lastEncode = "failed" =>
    /\ inferCalls = 0
    /\ pc = "read"
    /\ SessionState = "RUNNING"
    /\ exitPath = None

C4_Witness ==
  /\ lastEncode = "failed"
  /\ encodes = 1
  /\ pc = "read"
  /\ frame.id = reads

\* C5: when the next frame is about to be requested, the iteration that has
\* just ended (it obtained a frame) polled the exit key exactly once.
C5_PollOncePerIteration ==
  (pc = "read" /\ reads > 0) => polls = 1

\* C6: once the exit key has been observed at a poll, the thread is out of
\* the loop for good: the last frame read is the one of that iteration,
\* whose encode, inference call, display and poll each happened once and
\* are not repeated, and the run ends with the cleanup done.
C6_NoIterationAfterExitKey ==
  key = OrdQ =>
    /\ pc \in AfterLoopPcs
    /\ exitPath = "exit_key"
    /\ frame.id = reads
    /\ encodes = 1
    /\ inferCalls = 1
    /\ shown = 1
    /\ polls = 1
    /\ pc = "done" => cleanupCount = 1

C6_Witness ==
  /\ key = OrdQ
  /\ pc = "done"
  /\ reads < MaxReads
  /\ cleanupCount = 1

\* C7: after a camera read that reported no frame, the thread is out of the
\* loop for good; that iteration has no encode, inference call, overlay,
\* display or key poll; no exception is pending; the finally block is
\* entered once and the camera released once.
C7_EndOfStreamGraceful ==
  ~ret =>
    /\ pc \in AfterLoopPcs
    /\ exitPath = "end_of_stream"
    /\ pending = None
    /\ encodes = 0
    /\ inferCalls = 0
    /\ ~overlayDone
    /\ shown = 0
    /\ polls = 0
    /\ cleanupCount <= 1
    /\ releaseCount <= 1
    /\ pc = "done" => (cleanupCount = 1 /\ releaseCount = 1 /\ camera = "released")

C7_Witness ==
  /\ ~ret
  /\ pc = "done"
  /\ reads > 1
  /\ releaseCount = 1

\* C8: when the camera could not be opened, no frame is ever requested and
\* no inference call made; the finally block runs with no exception pending,
\* does not release the camera and destroys the windows.
C8_CameraOpenFailure ==
  camera = "unavailable" =>
    /\ pc \in AfterLoopPcs
    /\ reads = 0
    /\ inferCalls = 0
    /\ request = NoRequest
    /\ cap = None
    /\ releaseCount = 0
    /\ pending = None
    /\ pc = "done" => (cleanupCount = 1 /\ destroyCount = 1)

C8_Witness ==
  /\ camera = "unavailable"
  /\ pc = "done"
  /\ releaseCount = 0
  /\ destroyCount = 1

\* C9: a failure in INIT (inference client not acquired, or camera not
\* opened) ends the run without a single camera read and with a process
\* exit status that differs from the status 0 of a normal end of session.
C9_InitFailureReported ==
  exitPath \in {"client_init_failed", "camera_open_failed"} =>
    /\ reads = 0
    /\ pc \in AfterLoopPcs
    /\ pc = "done" => exitStatus # 0

\* C10: at most one inference call is made for the current frame, and the
\* frame is handed to the display only after draw_labels has returned for
\* it.
C10_OneCallAndOverlayBeforeDisplay ==
  /\ inferCalls <= 1
  /\ pc = "show" => overlayDone
  /\ shown >= 1 => (overlayDone /\ shown = 1 /\ inferCalls = 1)

C10_Witness ==
  /\ shown = 1
  /\ overlayDone
  /\ inferCalls = 1
  /\ window = frame
  /\ Len(frame.boxes) = MaxResp

\* The boxes bs carry exactly the texts of the labels ls, one box per label
\* and in the order of ls.
AnnotatedWith(bs, ls) ==
  /\ Len(bs) = Len(ls)
  /\ \A i \in 1..Len(ls) :
       /\ bs[i].text.name = ls[i].Name
       /\ bs[i].text.tenths = Format1f(ls[i].Confidence)

\* C11: a displayed frame carries exactly the labels returned by the
\* successful detect_labels call made with the bytes of that same frame in
\* the same iteration; a frame is drawn on only after its own call has
\* succeeded, so labels of an earlier iteration never reach a later frame
\* and a frame whose call failed gets no labels.
C11_OverlayShowsOwnLabels ==
  /\ (frame.id = reads /\ frame.boxes # <<>>) =>
       /\ lastInfer = "ok"
       /\ inferCalls = 1
       /\ request.Bytes = frame.id
       /\ labels # <<>>
  /\ shown = 1 =>
       /\ lastInfer = "ok"
       /\ request.Bytes = frame.id
       /\ AnnotatedWith(frame.boxes, labels)
  /\ (shown = 1 /\ pc \in {"waitkey", "read"}) => window = frame
  /\ window # NoFrame => window.id <= reads

C11_Witness ==
  /\ shown = 1
  /\ pc = "waitkey"
  /\ reads = 2
  /\ window = frame
  /\ frame.id = 2
  /\ Len(frame.boxes) = 1
  /\ Len(labels) = 1

\* C12: after a detect_labels call that raised, the frame of that iteration
\* has had no overlay pass and no display, carries no box, and is not what
\* the window shows.
C12_FailedFrameSkipped ==
  lastInfer = "failed" =>
    /\ ~overlayDone
    /\ shown = 0
    /\ frame.boxes = <<>>
    /\ frame.id = reads
    /\ window.id # frame.id
    /\ pc = "read"

C12_Witness ==
  /\ lastInfer = "failed"
  /\ labels # <<>>
  /\ window # NoFrame
  /\ frame.id = reads
  /\ frame.boxes = <<>>

\* C13: for a list D of detections (records with a name and a confidence),
\* draw_labels returns with exactly Len(D) boxes on the frame, box i showing
\* the text of D[i], duplicates drawn separately, and every box lies
\* strictly below the one before it.
C13_RenderOneBoxPerDetection ==
  (pc # "draw" /\ ~Malformed(labels)) =>
    /\ overlayDone
    /\ pc = "show"
    /\ Len(frame.boxes) = Len(labels)
    /\ \A i \in 1..Len(labels) :
         /\ frame.boxes[i].text.name = labels[i].Name
         /\ frame.boxes[i].text.tenths = Format1f(labels[i].Confidence)
    /\ \A i \in 1..(Len(frame.boxes) - 1) :
         /\ frame.boxes[i + 1].top > frame.boxes[i].top
         /\ frame.boxes[i + 1].bottom > frame.boxes[i].bottom
         /\ frame.boxes[i + 1].textY > frame.boxes[i].textY

C13_Witness ==
  /\ pc = "show"
  /\ Len(labels) = MaxDraw
  /\ labels[1] = labels[2]
  /\ labels[3] # labels[2]
  /\ labels[3] = [Name |-> "Cat", Confidence |-> 9035]
  /\ frame.boxes[3].text = [name |-> "Cat", tenths |-> 903]
  /\ Len(frame.boxes) = MaxDraw
  /\ frame.boxes[2].top > frame.boxes[1].top

\* The order of the steps of one iteration: the full sequence, and the two
\* `continue` edges that cut it short.
StepOrder ==
  { <<"read", "encode">>, <<"encode", "detect">>, <<"detect", "draw">>,
    <<"draw", "show">>, <<"show", "waitkey">>, <<"waitkey", "read">>,
    <<"encode", "read">>, <<"detect", "read">> }

\* C14: the thread moves through an iteration in the order read, encode,
\* inference call, overlay, display, key poll, possibly cut short by a
\* return to the read or by leaving the loop; each step runs at most once
\* per iteration and only after the step before it; and a camera read is
\* issued only when the inference call of the frame before it, if one was
\* made, has returned or failed.
C14_StrictlySequential ==
  [][ /\ (pc \in LoopPcs /\ pc' # pc) =>
           (<<pc, pc'>> \in StepOrder \/ pc' = "finally")
      /\ reads' # reads =>
           /\ pc = "read"
           /\ reads' = reads + 1
           /\ inferCalls = 1 => lastInfer \in {"ok", "failed"}
      /\ encodes' = encodes + 1 => (pc = "encode" /\ encodes = 0 /\ frame.id = reads)
      /\ inferCalls' = inferCalls + 1 =>
           (pc = "detect" /\ inferCalls = 0 /\ lastEncode = "ok")
      /\ (overlayDone' /\ ~overlayDone) => (pc = "draw" /\ lastInfer = "ok")
      /\ shown' = shown + 1 => (pc = "show" /\ shown = 0 /\ overlayDone)
      /\ polls' = polls + 1 => (pc = "waitkey" /\ polls = 0 /\ shown = 1)
    ]_vars

C14_Witness ==
  /\ pc = "waitkey"
  /\ reads = 2
  /\ encodes = 1
  /\ inferCalls = 1
  /\ overlayDone
  /\ shown = 1
  /\ window.id = 2
  /\ key # -1

\* The exit key is down: its event is waiting for the next key poll.
ExitKeyHeld == MaskKey(keyQueue) = OrdQ

\* C15: if from some point on the exit key stays down, the session
\* eventually reaches TERMINATED.
C15_HeldExitKeyTerminates ==
  (<>[]ExitKeyHeld) => <>(SessionState = "TERMINATED")

\* C16: from the entry into the finally block on, no camera read, encode,
\* inference call, overlay, display or key poll happens and the thread never
\* re-enters the loop; no read is issued on a released camera, which stays
\* released; and when the windows are destroyed an opened camera has
\* already been released.
C16_NothingAfterCleanup ==
  [][ /\ cleanupCount >= 1 =>
           /\ pc' \notin LoopPcs
           /\ reads' = reads
           /\ encodes' = encodes
           /\ inferCalls' = inferCalls
           /\ overlayDone' = overlayDone
           /\ shown' = shown
           /\ polls' = polls
           /\ frame' = frame
           /\ request' = request
           /\ window' \in {window, NoFrame}
      /\ camera = "released" => (reads' = reads /\ camera' = "released")
      /\ releaseCount' # releaseCount => (pc = "release" /\ destroyCount = 0)
      /\ destroyCount' # destroyCount =>
           (camera # "open" /\ (CameraWasOpened => releaseCount = 1))
    ]_vars

C16_Witness ==
  /\ pc = "done"
  /\ camera = "released"
  /\ releaseCount = 1
  /\ destroyCount = 1
  /\ reads \in 1..(MaxReads - 1)
  /\ shown = 1

\* C17: the thread leaves the loop only at a camera read that reported no
\* frame, at a key poll that observed the exit key, or by an exception
\* raised outside the guarded inference call (by the read, the encoder,
\* draw_labels or the display); a failed encode or a failed inference call
\* is never the step that leaves the loop.
C17_OnlyThreeWaysOut ==
  [][ (pc \in LoopPcs /\ pc' \notin LoopPcs) =>
        /\ pc' = "finally"
        /\ \/ (pc = "read" /\ ~ret' /\ exitPath' = "end_of_stream")
           \/ (pc = "waitkey" /\ key' = OrdQ /\ exitPath' = "exit_key")
           \/ (pc \in {"read", "encode", "draw", "show"} /\ exitPath' = "exception")
        /\ lastEncode' # "failed"
        /\ lastInfer' # "failed"
    ]_vars

C17_Witness ==
  /\ pc = "finally"
  /\ exitPath = "exception"
  /\ reads = MaxReads
  /\ lastInfer = "ok"
  /\ Malformed(labels)

TypeOK ==
  /\ pc \in InitPcs \cup LoopPcs \cup CleanupPcs \cup EndPcs
  /\ cap \in {None, "cap"}
  /\ camera \in {"closed", "unavailable", "open", "released"}
  /\ key \in -1..(KeyMask - 1)
  /\ reads \in 0..MaxReads
  /\ exitStatus \in {-1, 0, 1}

====
